---------------------------- MODULE Spec2Model ----------------------------
(***************************************************************************)
(* confluence2md: session set-up, page fetch, attachment listing,          *)
(* reference resolution, download, rewriting and the command line          *)
(* (src/src/confluence2md.py).                                             *)
(*                                                                         *)
(* Strings are sequences of one-character strings, so that unquote,        *)
(* str.replace, the filename sanitizer and the placeholder are computed    *)
(* character by character as the Python code computes them.                *)
(***************************************************************************)
EXTENDS Integers, Sequences, FiniteSets, TLC

VARIABLES
    pc,         \* position of the single thread of control
    att_list,   \* list_attachments_for_page: `attachments` / the caller's att_list
    url,        \* list_attachments_for_page: `url` of the next listing request
    list_reqs,  \* URLs requested by the running list_attachments_for_page call
    served,     \* listing responses received by the running call
    att_map,    \* rewrite_and_download_attachments: `att_map`
    base_dir,   \* rewrite_and_download_attachments: parameter `base_dir`
    elem,       \* the element the current loop iteration is looking at
    out,        \* what stands in the soup in place of elem
    att,        \* the record the variants resolved to (NoAtt: none)
    dl,         \* locals of the running download_attachment call
    saved,      \* return value of the last download_attachment call
    fs,         \* content of the attachments directory: file name -> content
    run_reqs,   \* the running rewriter call has issued a download request
    list_status,\* how the listing of the running rewriter call ended: "ok",
                \* "failed" on its first request, "failed_paging" on a later one
    raised,     \* an exception left rewrite_and_download_attachments
    CONFLUENCE_URL,       \* module global set by init_session
    CONFLUENCE_USER,      \* module global set by init_session
    CONFLUENCE_API_TOKEN, \* module global set by init_session
    SESSION,    \* module global: NoSession (None) or the requests session,
                \* of which its auth pair is kept (AUTH is the same pair)
    call,       \* the running, or the last, call of init_session,
                \* fetch_and_save or main
    net,        \* the requests that call has sent through _get
    docs,       \* Markdown documents in the output directory: name -> text
    procs       \* concurrent callers of download_attachment: their locals

session_vars == <<CONFLUENCE_URL, CONFLUENCE_USER, CONFLUENCE_API_TOKEN, SESSION>>
rewriter_vars == <<pc, att_list, url, list_reqs, served, att_map, base_dir, elem,
                   out, att, dl, saved, run_reqs, list_status, raised>>
fetch_vars == <<call, net, docs>>

vars == <<pc, att_list, url, list_reqs, served, att_map, base_dir, elem, out,
          att, dl, saved, fs, run_reqs, list_status, raised, CONFLUENCE_URL,
          CONFLUENCE_USER, CONFLUENCE_API_TOKEN, SESSION, call, net, docs, procs>>

(***************************************************************************)
(* Bounds of the model.                                                    *)
(***************************************************************************)
\* longest file name of the resolver's inputs, in tokens after the leading letter
MaxTokens == 2
\* most attachment records a listing returns in all
MaxAtts == 2
\* most listing requests a chain of responses asks for
MaxPages == 2

(***************************************************************************)
(* Characters and strings.                                                 *)
(***************************************************************************)
SP == <<" ">>
US == <<"_">>
PCT20 == <<"%", "2", "0">>
Tokens == {SP, US, PCT20}

RECURSIVE NamesOfLen(_)
NamesOfLen(k) ==
    IF k = 0 THEN {<<"x">>}
    ELSE {n \o t : n \in NamesOfLen(k - 1), t \in Tokens}

\* file names: a letter followed by at most k of: space, underscore, %20
NamesUpTo(k) == UNION {NamesOfLen(i) : i \in 0..k}

Names == NamesUpTo(MaxTokens)

Min(S) == CHOOSE m \in S : \A n \in S : m <= n

Drop(s, n) == SubSeq(s, n + 1, Len(s))

IsPrefix(p, s) == Len(p) <= Len(s) /\ SubSeq(s, 1, Len(p)) = p

Contains(s, sub) ==
    \E i \in 0..(Len(s) - Len(sub)) : SubSeq(s, i + 1, i + Len(sub)) = sub

EndsWith(s, suffix) ==
    Len(suffix) <= Len(s) /\ SubSeq(s, Len(s) - Len(suffix) + 1, Len(s)) = suffix

\* str.replace(old, new): leftmost non-overlapping occurrences
RECURSIVE Replace(_, _, _)
Replace(s, old, new) ==
    IF Len(s) < Len(old) THEN s
    ELSE IF IsPrefix(old, s) THEN new \o Replace(Drop(s, Len(old)), old, new)
    ELSE <<s[1]>> \o Replace(Tail(s), old, new)

HexDigits == {"0", "1", "2", "3", "4", "5", "6", "7", "8", "9",
              "a", "b", "c", "d", "e", "f", "A", "B", "C", "D", "E", "F"}

\* the character a %XY escape stands for, for the escapes of this alphabet
ByteChar(h1, h2) ==
    CASE <<h1, h2>> = <<"2", "0">> -> " "
      [] <<h1, h2>> = <<"2", "2">> -> "\""
      [] <<h1, h2>> = <<"2", "5">> -> "%"
      [] <<h1, h2>> = <<"5", "0">> -> "P"
      [] OTHER -> "?"

\* urllib.parse.unquote: every %XY with two hex digits becomes its character,
\* any other % stays
RECURSIVE Unquote(_)
Unquote(s) ==
    IF s = <<>> THEN <<>>
    ELSE IF s[1] = "%" /\ Len(s) >= 3 /\ s[2] \in HexDigits /\ s[3] \in HexDigits
         THEN <<ByteChar(s[2], s[3])>> \o Unquote(Drop(s, 3))
    ELSE <<s[1]>> \o Unquote(Tail(s))

(***************************************************************************)
(* Attachment records and the Attachment Map.                              *)
(***************************************************************************)
\* a record without id, title and links: {} in Python, which is falsy; it
\* stands for `att = None` as well
NoAtt == [id |-> <<>>, title |-> <<>>, links |-> "none"]

Put(m, k, v) == [x \in (DOMAIN m) \cup {k} |-> IF x = k THEN v ELSE m[x]]

EmptyMap == [x \in {} |-> NoAtt]

\* the four insertions of one listed record
MapInsert(m, a) ==
    IF a.title = <<>> THEN m
    ELSE Put(Put(Put(Put(m, a.title, a),
                     Unquote(a.title), a),
                 Replace(a.title, SP, US), a),
             Replace(a.title, SP, PCT20), a)

RECURSIVE BuildMapFrom(_, _)
BuildMapFrom(m, l) ==
    IF l = <<>> THEN m ELSE BuildMapFrom(MapInsert(m, Head(l)), Tail(l))

BuildMap(l) == BuildMapFrom(EmptyMap, l)

(***************************************************************************)
(* Filename variants, as each of the three loops lists them.               *)
(***************************************************************************)
ClaimedVariants(filename) ==
    << filename,
       Unquote(filename),
       Replace(filename, SP, US),
       Replace(filename, US, SP),
       Replace(filename, SP, PCT20),
       Replace(filename, PCT20, SP) >>

RiVariants(filename) ==
    << filename,
       Unquote(filename),
       Replace(filename, PCT20, SP),
       Replace(filename, US, SP),
       Replace(filename, SP, US),
       Replace(filename, SP, PCT20) >>

ImgVariants(filename) ==
    << filename,
       Unquote(filename),
       Replace(filename, PCT20, SP),
       Replace(filename, US, SP),
       Replace(filename, SP, US),
       Replace(filename, SP, PCT20) >>

AVariants(filename) ==
    << filename,
       Unquote(filename),
       Replace(filename, PCT20, SP),
       Replace(filename, US, SP),
       Replace(filename, SP, US),
       Replace(filename, SP, PCT20) >>

VariantsFor(shape, filename) ==
    CASE shape = "ri" -> RiVariants(filename)
      [] shape = "img" -> ImgVariants(filename)
      [] shape = "a" -> AVariants(filename)

\* for variant in filename_variants: if variant in att_map: ...; break
FirstHit(variants, m) ==
    LET hits == {i \in 1..Len(variants) : variants[i] \in DOMAIN m}
    IN IF hits = {} THEN NoAtt ELSE m[variants[Min(hits)]]

Shapes == {"ri", "img", "a"}

(***************************************************************************)
(* File names and paths of download_attachment and PathRel.                *)
(***************************************************************************)
Letters == {"a", "b", "c", "d", "e", "f", "g", "h", "i", "j", "k", "l", "m",
            "n", "o", "p", "q", "r", "s", "t", "u", "v", "w", "x", "y", "z"}

Digits == {"0", "1", "2", "3", "4", "5", "6", "7", "8", "9"}

\* safe_chars, for the characters the model's strings are made of
SafeChars == Letters \cup Digits \cup {"-", "_", ".", " "}

RECURSIVE LStrip(_)
LStrip(s) == IF s # <<>> /\ s[1] = " " THEN LStrip(Tail(s)) ELSE s

RECURSIVE RStrip(_)
RStrip(s) ==
    IF s # <<>> /\ s[Len(s)] = " " THEN RStrip(SubSeq(s, 1, Len(s) - 1)) ELSE s

\* str.strip()
Strip(s) == RStrip(LStrip(s))

\* "".join(c if c in safe_chars else "_" for c in filename).strip()
Sanitize(s) ==
    Strip([i \in 1..Len(s) |-> IF s[i] \in SafeChars THEN s[i] ELSE "_"])

\* the part of a URL before its query and fragment (urlparse(...).path of a
\* URL without scheme and host)
RECURSIVE UrlPath(_)
UrlPath(s) ==
    IF s = <<>> \/ s[1] \in {"?", "#"} THEN <<>>
    ELSE <<s[1]>> \o UrlPath(Tail(s))

\* os.path.basename: what follows the last slash
RECURSIVE Basename(_)
Basename(s) ==
    IF \E i \in 1..Len(s) : s[i] = "/"
    THEN Basename(Drop(s, Min({i \in 1..Len(s) : s[i] = "/"})))
    ELSE s

ATTACHMENT_ == <<"a", "t", "t", "a", "c", "h", "m", "e", "n", "t", "_">>
UNKNOWN == <<"u", "n", "k", "n", "o", "w", "n">>

\* f"attachment_{att.get('id', 'unknown')}": an id that is missing prints as
\* unknown
SyntheticName(a) == ATTACHMENT_ \o (IF a.id = <<>> THEN UNKNOWN ELSE a.id)


\* filename.strip() and the fallbacks of lines 183-197
DeriveFilename(a, u) ==
    LET raw == IF a.title # <<>> THEN a.title
               ELSE IF Basename(u.name) # <<>> THEN Unquote(Basename(u.name))
               ELSE SyntheticName(a)
        s == Sanitize(raw)
    IN IF s = <<>> \/ s = <<".">> THEN SyntheticName(a) ELSE s

\* a URL of the download endpoint: how it was derived and its last segment
NoLink == [via |-> "none", name |-> <<>>]

\* the locator built from the page id and the title without asking for an id
DownloadLink_WithoutId(a, page_id) ==
    IF a.links = "download" THEN [via |-> "download", name |-> a.title]
    ELSE IF a.links = "downloadUrl" THEN [via |-> "downloadUrl", name |-> a.title]
    ELSE IF page_id # <<>> THEN [via |-> "page", name |-> a.title]
    ELSE IF a.id # <<>> THEN [via |-> "id", name |-> a.id]
    ELSE NoLink

\* lines 154-174: the download locator of a record
DownloadLink(a, page_id) ==
    IF a.links = "download" THEN [via |-> "download", name |-> a.title]
    ELSE IF a.links = "downloadUrl" THEN [via |-> "downloadUrl", name |-> a.title]
    ELSE IF a.id # <<>> /\ page_id # <<>> THEN [via |-> "page", name |-> a.title]
    ELSE IF a.id # <<>> THEN [via |-> "id", name |-> a.id]
    ELSE NoLink

\* alt_urls of lines 225-229
AltUrls(a, page_id, filename) ==
    << [via |-> "alt_page", name |-> filename],
       [via |-> "alt_id", name |-> filename],
       [via |-> "alt_wiki_page", name |-> filename] >>

\* the return value of download_attachment: None, or out_dir / filename
None == [ok |-> FALSE, name |-> <<>>]
Some(filename) == [ok |-> TRUE, name |-> filename]

\* filename, url, the index of the alternative URL in use (0: the primary
\* URL), the requests issued so far and the answer to the last of them
NoDl == [filename |-> <<>>, url |-> NoLink, alt |-> 0, n |-> 0, resp |-> "none"]

\* the bytes a response to a request for record a carries: whose bytes they
\* are, the declared content type, and whether the whole body arrived
Body(a, ctype, complete) == [of |-> a.title, ctype |-> ctype, complete |-> complete]

\* open(out_path, "wb") and the chunks written before the stream ends or breaks
WriteFile(files, filename, body) == Put(files, filename, body)

NoFiles == [x \in {} |-> Body(NoAtt, "bin", TRUE)]

\* what the environment answers to a download request
Responses == {"ok", "html", "http_error", "conn_error", "stream_error"}

\* lines 222-244, entered from the except clause: the first alternative
\* URL, or None when the record has no id or no page id is known
AfterPrimaryError(a, page_id, d, files) ==
    IF page_id # <<>> /\ a.id # <<>>
    THEN [status |-> "request", saved |-> None, files |-> files,
          dl |-> [d EXCEPT !.alt = 1,
                           !.url = AltUrls(a, page_id, d.filename)[1]]]
    ELSE [status |-> "return", saved |-> None, files |-> files, dl |-> d]

\* download_attachment without lines 201-203
DownloadCall_NoExistsCheck(a, page_id, files) ==
    LET link == DownloadLink(a, page_id)
        fname == DeriveFilename(a, link)
    IN IF link = NoLink
       THEN [status |-> "return", saved |-> None, files |-> files, dl |-> NoDl]
       ELSE [status |-> "request", saved |-> None, files |-> files,
             dl |-> [NoDl EXCEPT !.filename = fname, !.url = link]]

\* lines 152-207 up to the first request
DownloadCall(a, page_id, files) ==
    LET link == DownloadLink(a, page_id)
        fname == DeriveFilename(a, link)
    IN IF link = NoLink
       THEN [status |-> "return", saved |-> None, files |-> files, dl |-> NoDl]
       ELSE IF fname \in DOMAIN files
       THEN [status |-> "return", saved |-> Some(fname), files |-> files,
             dl |-> [NoDl EXCEPT !.filename = fname, !.url = link]]
       ELSE [status |-> "request", saved |-> None, files |-> files,
             dl |-> [NoDl EXCEPT !.filename = fname, !.url = link]]

\* lines 207-221: the answer to the primary request
OnPrimaryResponse(a, page_id, d, files, resp) ==
    CASE resp = "ok" ->
           [status |-> "return", saved |-> Some(d.filename),
            files |-> WriteFile(files, d.filename, Body(a, "bin", TRUE)),
            dl |-> d]
      [] resp = "html" ->
           [status |-> "return", saved |-> None, files |-> files, dl |-> d]
      [] resp = "stream_error" ->
           AfterPrimaryError(a, page_id, d,
               WriteFile(files, d.filename, Body(a, "bin", FALSE)))
      [] OTHER -> AfterPrimaryError(a, page_id, d, files)

\* `continue`, or the end of the for loop and `return None`
NextAlternative(a, page_id, d, files) ==
    IF d.alt < Len(AltUrls(a, page_id, d.filename))
    THEN [status |-> "request", saved |-> None, files |-> files,
          dl |-> [d EXCEPT !.alt = d.alt + 1,
                           !.url = AltUrls(a, page_id, d.filename)[d.alt + 1]]]
    ELSE [status |-> "return", saved |-> None, files |-> files, dl |-> d]

\* the alternative URLs without the content-type test of line 235
OnAltResponse_WritesHtml(a, page_id, d, files, resp) ==
    CASE resp = "ok" ->
           [status |-> "return", saved |-> Some(d.filename),
            files |-> WriteFile(files, d.filename, Body(a, "bin", TRUE)),
            dl |-> d]
      [] resp = "html" ->
           [status |-> "return", saved |-> Some(d.filename),
            files |-> WriteFile(files, d.filename, Body(a, "html", TRUE)),
            dl |-> d]
      [] resp = "stream_error" ->
           NextAlternative(a, page_id, d,
               WriteFile(files, d.filename, Body(a, "bin", FALSE)))
      [] OTHER -> NextAlternative(a, page_id, d, files)

\* the alternative URLs without the try of line 231
OnAltResponse_Raises(a, page_id, d, files, resp) ==
    CASE resp = "ok" ->
           [status |-> "return", saved |-> Some(d.filename),
            files |-> WriteFile(files, d.filename, Body(a, "bin", TRUE)),
            dl |-> d]
      [] resp = "html" -> NextAlternative(a, page_id, d, files)
      [] resp = "stream_error" ->
           [status |-> "raise", saved |-> None,
            files |-> WriteFile(files, d.filename, Body(a, "bin", FALSE)),
            dl |-> d]
      [] OTHER -> [status |-> "raise", saved |-> None, files |-> files, dl |-> d]

\* lines 230-243: the answer to the request for an alternative URL
OnAltResponse(a, page_id, d, files, resp) ==
    CASE resp = "ok" ->
           [status |-> "return", saved |-> Some(d.filename),
            files |-> WriteFile(files, d.filename, Body(a, "bin", TRUE)),
            dl |-> d]
      [] resp = "html" -> NextAlternative(a, page_id, d, files)
      [] resp = "stream_error" ->
           NextAlternative(a, page_id, d,
               WriteFile(files, d.filename, Body(a, "bin", FALSE)))
      [] OTHER -> NextAlternative(a, page_id, d, files)

(***************************************************************************)
(* Paths: sequences of components.                                         *)
(***************************************************************************)
DOTDOT == <<".", ".">>
OutDir == << <<"o">> >>
ATTACHMENTS == <<"a", "t", "t", "a", "c", "h", "m", "e", "n", "t", "s">>
AttachmentsDir == OutDir \o <<ATTACHMENTS>>

\* a base_dir os.path.relpath cannot take (its __fspath__ raises)
BadPath == [ok |-> FALSE, parts |-> <<>>]

CommonLen(p, q) ==
    LET same == {i \in 0..Len(p) : i <= Len(q) /\ SubSeq(p, 1, i) = SubSeq(q, 1, i)}
    IN CHOOSE m \in same : \A n \in same : n <= m

\* os.path.relpath(path, start) on absolute, normalized paths
RelPath(path, start) ==
    LET c == CommonLen(path, start)
        rel == [i \in 1..(Len(start) - c) |-> DOTDOT] \o Drop(path, c)
    IN IF rel = <<>> THEN << <<".">> >> ELSE rel

RECURSIVE JoinPath(_)
JoinPath(parts) ==
    IF Len(parts) = 1 THEN parts[1]
    ELSE parts[1] \o <<"/">> \o JoinPath(Tail(parts))

\* PathRel: the relative path, or the base name when relpath raises
PathRel(path, base) ==
    IF base.ok THEN JoinPath(RelPath(path, base.parts))
    ELSE path[Len(path)]


(***************************************************************************)
(* The markup: elements and what the rewriter puts in their place.         *)
(***************************************************************************)
SEGMENT == <<"/", "d", "o", "w", "n", "l", "o", "a", "d", "/",
             "a", "t", "t", "a", "c", "h", "m", "e", "n", "t", "s", "/">>

PageId == <<"7">>

\* the src or href of a reference to an attachment of the page
RemoteUrl(f) == SEGMENT \o PageId \o <<"/">> \o f

\* a src or href that is no attachment reference
OtherUrl == <<"/", "i", "/", "x">>

PLACEHOLDER_PREFIX == <<"[", "A", "t", "t", "a", "c", "h", "m", "e", "n", "t",
                        ":", " ">>

\* f"[Attachment: {filename}]"
Placeholder(filename) == PLACEHOLDER_PREFIX \o filename \o <<"]">>

NoElem == [shape |-> "none", value |-> <<>>]

Tag(shape, value) == [kind |-> "tag", shape |-> shape, value |-> value]
Text(value) == [kind |-> "text", shape |-> "none", value |-> value]
Unchanged(e) == Tag(e.shape, e.value)
NoOut == Tag("none", <<>>)

\* the file name a loop takes from its element: the filename attribute, or
\* the last segment of a src or href that holds the download segment;
\* empty when the loop skips the element
RefFilename(e) ==
    IF e.shape = "ri" THEN e.value
    ELSE IF Contains(e.value, SEGMENT) THEN Basename(UrlPath(e.value))
    ELSE <<>>

\* lines 294-299, 333-337, 361-365
Resolve(e, m) ==
    IF RefFilename(e) = <<>> THEN NoAtt
    ELSE FirstHit(VariantsFor(e.shape, RefFilename(e)), m)

\* the saved path taken relative to the attachments directory itself
LocalRef_FromAttachmentsDir(savedv, base) ==
    PathRel(AttachmentsDir \o <<savedv.name>>,
            IF base.ok THEN [ok |-> TRUE, parts |-> AttachmentsDir] ELSE base)

\* str(PathRel(saved, base_dir))
LocalRef(savedv, base) == PathRel(AttachmentsDir \o <<savedv.name>>, base)

\* the structured reference treated as the img loop treats an unmatched one
RiRewrite_KeepsUnmatched(e, a, savedv, base) ==
    IF RefFilename(e) = <<>> THEN Unchanged(e)
    ELSE IF a # NoAtt
    THEN IF savedv.ok THEN Tag("img", LocalRef(savedv, base))
         ELSE Text(Placeholder(RefFilename(e)))
    ELSE Unchanged(e)

\* the structured reference without the else branch of line 307
RiRewrite_KeepsFailed(e, a, savedv, base) ==
    IF RefFilename(e) = <<>> THEN Unchanged(e)
    ELSE IF a # NoAtt
    THEN IF savedv.ok THEN Tag("img", LocalRef(savedv, base))
         ELSE Unchanged(e)
    ELSE Text(Placeholder(RefFilename(e)))

\* lines 301-313
RiRewrite(e, a, savedv, base) ==
    IF RefFilename(e) = <<>> THEN Unchanged(e)
    ELSE IF a # NoAtt
    THEN IF savedv.ok THEN Tag("img", LocalRef(savedv, base))
         ELSE Text(Placeholder(RefFilename(e)))
    ELSE Text(Placeholder(RefFilename(e)))

\* the img loop with the else branches of the structured reference
ImgRewrite_Placeholder(e, a, savedv, base) ==
    IF a # NoAtt /\ savedv.ok THEN Tag("img", LocalRef(savedv, base))
    ELSE IF RefFilename(e) # <<>> THEN Text(Placeholder(RefFilename(e)))
    ELSE Unchanged(e)

\* lines 339-342
ImgRewrite(e, a, savedv, base) ==
    IF a # NoAtt /\ savedv.ok THEN Tag("img", LocalRef(savedv, base))
    ELSE Unchanged(e)

\* lines 367-370
ARewrite(e, a, savedv, base) ==
    IF a # NoAtt /\ savedv.ok THEN Tag("a", LocalRef(savedv, base))
    ELSE Unchanged(e)

Rewrite(e, a, savedv, base) ==
    CASE e.shape = "ri" -> RiRewrite(e, a, savedv, base)
      [] e.shape = "img" -> ImgRewrite(e, a, savedv, base)
      [] e.shape = "a" -> ARewrite(e, a, savedv, base)

\* the listing called outside the try block
OnListError_Propagates == [pc |-> "raised", raised |-> TRUE]

\* lines 272-274: the listing raised inside the try block
OnListError == [pc |-> "ri", raised |-> FALSE]

\* download_attachment is called outside any try block: what it raises
\* leaves rewrite_and_download_attachments
OnDownloadRaise == [pc |-> "raised", raised |-> TRUE]

(***************************************************************************)
(* list_attachments_for_page.                                              *)
(***************************************************************************)
CONFLUENCE_HOST == "site"

\* f"{_api_v1_base()}/content/{page_id}/child/attachment"
Endpoint == [host |-> CONFLUENCE_HOST, path |-> "/wiki/rest/api/content/7/child/attachment"]

NoUrl == [host |-> "", path |-> ""]

\* data.get("_links", {}).get("next") when there is none
NoNext == [host |-> "", path |-> ""]

\* urljoin(CONFLUENCE_URL, next_link): a link with a host of its own stays
UrlJoin(host, link) ==
    [host |-> IF link.host = "" THEN host ELSE link.host, path |-> link.path]

\* the listing with `attachments = results` for attachments.extend(results)
OnListResponse_KeepsLastPage(attachments, results, next) ==
    [attachments |-> results,
     done |-> (next = NoNext),
     url |-> IF next = NoNext THEN NoUrl ELSE UrlJoin(CONFLUENCE_HOST, next)]

\* lines 135-147: one response of the listing
OnListResponse(attachments, results, next) ==
    [attachments |-> attachments \o results,
     done |-> (next = NoNext),
     url |-> IF next = NoNext THEN NoUrl ELSE UrlJoin(CONFLUENCE_HOST, next)]


(***************************************************************************)
(* The session: init_session, _wiki_base, _api_v1_base, _get.              *)
(***************************************************************************)
HTTP == <<"h", "t", "t", "p">>
PLACEHOLDER_DOMAIN == <<"y", "o", "u", "r", "-", "d", "o", "m", "a", "i", "n", ".", "a", "t", "l", "a", "s", "s", "i", "a", "n", ".", "n", "e", "t">>
PLACEHOLDER_USER == <<"y", "o", "u", "@", "e", "x", "a", "m", "p", "l", "e", ".", "c", "o", "m">>
PLACEHOLDER_TOKEN == <<"a", "p", "i", "-", "t", "o", "k", "e", "n">>
WIKI == <<"/", "w", "i", "k", "i">>
REST_API == <<"/", "r", "e", "s", "t", "/", "a", "p", "i">>

\* a module global that no statement has assigned yet
Undefined == <<"<undefined>">>

\* SESSION = None, and requests.Session() with SESSION.auth = AUTH
NoSession == [auth |-> <<>>]
Session(user, token) == [auth |-> <<user, token>>]

\* init_session without the check of line 75
Validate_NoEmailCheck(confluence_url, user, api_token) ==
    IF confluence_url = <<>> \/ user = <<>> \/ api_token = <<>> THEN "required"
    ELSE IF \/ Contains(confluence_url, PLACEHOLDER_DOMAIN)
            \/ user = PLACEHOLDER_USER
            \/ api_token \in {PLACEHOLDER_TOKEN, <<>>}
         THEN "placeholder"
    ELSE IF ~IsPrefix(HTTP, confluence_url) THEN "scheme"
    ELSE "ok"

\* lines 64-78: the first check that rejects the arguments, in the order of
\* the code; "ok" when none does
Validate(confluence_url, user, api_token) ==
    IF confluence_url = <<>> \/ user = <<>> \/ api_token = <<>> THEN "required"
    ELSE IF \/ Contains(confluence_url, PLACEHOLDER_DOMAIN)
            \/ user = PLACEHOLDER_USER
            \/ api_token \in {PLACEHOLDER_TOKEN, <<>>}
         THEN "placeholder"
    ELSE IF ~Contains(user, <<"@">>) THEN "email"
    ELSE IF ~IsPrefix(HTTP, confluence_url) THEN "scheme"
    ELSE "ok"

\* str.rstrip("/")
RECURSIVE RStripSlash(_)
RStripSlash(s) ==
    IF s # <<>> /\ s[Len(s)] = "/" THEN RStripSlash(SubSeq(s, 1, Len(s) - 1))
    ELSE s

\* _wiki_base() and _api_v1_base() for a value of CONFLUENCE_URL
WikiBase(confluence_url) ==
    LET base == RStripSlash(confluence_url)
    IN IF EndsWith(base, WIKI) THEN base ELSE base \o WIKI

ApiV1Base(confluence_url) == WikiBase(confluence_url) \o REST_API

\* a request sent through SESSION: what for, built on which value of
\* CONFLUENCE_URL, signed with which SESSION.auth
Request(what, confluence_url, session) ==
    [what |-> what, base |-> confluence_url, auth |-> session.auth]

\* what _get meets: a response, a 401 or 403, another error status, no
\* connection
GetResponses == {"ok", "unauthorized", "http_error", "conn_error"}

\* lines 40-53: what _get raises
GetError(resp) ==
    CASE resp = "ok" -> ""
      [] resp \in {"unauthorized", "http_error"} -> "HTTPError"
      [] OTHER -> "ConnectionError"

\* arguments of init_session: values that pass the checks of lines 64-78
\* and values that fail one of them
GoodUrls == {<<"h", "t", "t", "p", ":", "/", "/", "a">>, <<"h", "t", "t", "p", "s", ":", "/", "/", "b", "/", "w", "i", "k", "i", "/">>}
BadUrls == {<<>>, <<"f", "t", "p", ":", "/", "/", "a">>,
            <<"h", "t", "t", "p", "s", ":", "/", "/", "y", "o", "u", "r", "-", "d", "o", "m", "a", "i", "n", ".", "a", "t", "l", "a", "s", "s", "i", "a", "n", ".", "n", "e", "t">>}
GoodUsers == {<<"u", "@", "a">>}
BadUsers == {<<>>, <<"m", "e">>, PLACEHOLDER_USER}
GoodApiTokens == {<<"t">>, <<"s">>}
BadApiTokens == {<<>>, PLACEHOLDER_TOKEN}

\* the calls of init_session: all arguments good, one of them bad, all
\* three empty, all three placeholders
InitSessionArgs ==
    (GoodUrls \X GoodUsers \X GoodApiTokens)
        \cup (BadUrls \X GoodUsers \X {<<"t">>})
        \cup ({<<"h", "t", "t", "p", ":", "/", "/", "a">>} \X BadUsers \X {<<"t">>})
        \cup ({<<"h", "t", "t", "p", ":", "/", "/", "a">>} \X GoodUsers \X BadApiTokens)
        \cup {<<(<<>>), (<<>>), (<<>>)>>,
              <<<<"h", "t", "t", "p", "s", ":", "/", "/", "y", "o", "u", "r", "-", "d", "o", "m", "a", "i", "n", ".", "a", "t", "l", "a", "s", "s", "i", "a", "n", ".", "n", "e", "t">>,
                PLACEHOLDER_USER, PLACEHOLDER_TOKEN>>}

(***************************************************************************)
(* fetch_and_save and main: values.                                        *)
(***************************************************************************)
\* a page as get_page_by_id and find_page_by_title return it; body tells
\* what page["body"] holds: nothing, a storage without value, an empty
\* value, markup
Page(title, body) == [id |-> PageId, title |-> title, body |-> body]
NoPage == [id |-> <<>>, title |-> <<>>, body |-> "absent"]
PageBodies == {"absent", "no_value", "empty", "markup"}
PageTitleTexts == {<<"p">>, <<"p", "/", "q">>}
Pages == {Page(t, b) : t \in PageTitleTexts, b \in PageBodies}

MARKUP == <<"<", "p", ">">>

\* line 430: (page.get("body") or {}).get("storage", {}).get("value", "")
StorageValue(page) == IF page.body = "markup" THEN MARKUP ELSE <<>>

\* lines 452-454, for the characters the model's strings are made of
SafeTitle(title) ==
    Strip([i \in 1..Len(title) |->
              IF title[i] \in Letters \cup Digits \cup {" ", "-", "_", "."}
              THEN title[i] ELSE "_"])

\* the arguments of fetch_and_save and of the command line; an argument not
\* given is empty
Args(page_id, title_arg, space, use_pandoc) ==
    [page_id |-> page_id, title_arg |-> title_arg, space |-> space,
     use_pandoc |-> use_pandoc]
NoArgs == Args(<<>>, <<>>, <<>>, FALSE)
ArgsGiven ==
    {Args(p, t, sp, u) : p \in {<<>>, PageId}, t \in {<<>>, <<"p">>},
                         sp \in {<<>>, <<"s">>}, u \in BOOLEAN}

\* the Markdown text, of which it is kept which renderer made it
Markdown(use_pandoc) == [renderer |-> IF use_pandoc THEN "pandoc" ELSE "html2text"]
NoMarkdown == [renderer |-> "none"]

\* the document of lines 456-458
Document(title, md) == [heading |-> title, md |-> md]
NoDocs == [x \in {} |-> Document(<<>>, NoMarkdown)]

\* the return value of fetch_and_save; attachments_dir is empty for None
Result(md_path, attachments_dir, md) ==
    [md_path |-> md_path, attachments_dir |-> attachments_dir, md_content |-> md]
NoResult == Result(<<>>, <<>>, NoMarkdown)

\* exit statuses: sys.exit(1), sys.exit(2), and the status parser.error of
\* argparse ends the process with
NoExit == -1
EXIT_NO_CREDENTIALS == 1
EXIT_FETCH_FAILED == 2
EXIT_PARSER_ERROR == 2

\* a call and how far it is: the function, where it waits, its arguments
\* and the page it got (locals, gone when it ends), the steps it has taken
\* in their order, what it raised, what it returned, what it printed, the
\* status it ended the process with, and whether its rewriter saved a
\* download
NoCall ==
    [op |-> "none", pc |-> "idle", args |-> NoArgs, steps |-> <<>>,
     page |-> NoPage, error |-> "", result |-> NoResult,
     printed |-> <<>>, exit |-> NoExit, downloaded |-> FALSE]

\* line 411: SESSION is None
CredentialsMissing_Never(session) == FALSE

CredentialsMissing(session) == session = NoSession

\* line 431: not storage
BodyMissing_Never(page) == FALSE

BodyMissing(page) == StorageValue(page) = <<>>

\* an exception leaves the call; main catches what fetch_and_save raises
\* (lines 508-510)
Raise(c, error) ==
    IF c.op = "main"
    THEN [c EXCEPT !.pc = "idle", !.args = NoArgs, !.page = NoPage,
                   !.error = error, !.printed = <<"Error:">>,
                   !.exit = EXIT_FETCH_FAILED]
    ELSE [c EXCEPT !.pc = "idle", !.args = NoArgs, !.page = NoPage,
                   !.error = error]

\* fetch_and_save returns; main prints what it returned (lines 512-514)
Return(c, result) ==
    IF c.op = "main"
    THEN [c EXCEPT !.pc = "idle", !.args = NoArgs, !.page = NoPage,
                   !.result = result,
                   !.printed = IF result.attachments_dir # <<>>
                               THEN <<"Saved:", "Attachments saved under:">>
                               ELSE <<"Saved:">>]
    ELSE [c EXCEPT !.pc = "idle", !.args = NoArgs, !.page = NoPage,
                   !.result = result]

\* download_attachment run to its end: every way the answers to its
\* requests can take it from r
RECURSIVE DownloadOutcomes(_, _, _)
DownloadOutcomes(r, a, page_id) ==
    IF r.status # "request" THEN {r}
    ELSE UNION {
        LET d == [r.dl EXCEPT !.n = @ + 1, !.resp = resp]
        IN DownloadOutcomes(
               IF d.alt = 0 THEN OnPrimaryResponse(a, page_id, d, r.files, resp)
               ELSE OnAltResponse(a, page_id, d, r.files, resp),
               a, page_id)
        : resp \in Responses}

(***************************************************************************)
(* What the environment supplies: the page's attachment records, the       *)
(* markup's elements, the caller's base_dir.                               *)
(***************************************************************************)
SeqsUpTo(S, n) == UNION {[1..k -> S] : k \in 0..n}

\* titles and referenced file names of a page
PageNames == {<<"x">>} \cup {<<"x">> \o t : t \in Tokens}

PageTitles == {<<"x">>, <<"x", " ">>, <<"x", "_">>}

\* a record as the service lists it, one with a download link and no id,
\* and one with neither
PageRecords ==
    {[id |-> k.id, title |-> t, links |-> k.links] :
        t \in PageTitles,
        k \in {[id |-> <<"1">>, links |-> "download"],
                [id |-> <<>>, links |-> "download"],
                [id |-> <<>>, links |-> "none"]}}

NextLinks == {[host |-> "", path |-> "/next"], [host |-> "cdn", path |-> "/next"]}

Elements(shape) ==
    IF shape = "ri"
    THEN {[shape |-> "ri", value |-> f] : f \in PageNames \cup {<<>>}}
    ELSE {[shape |-> shape, value |-> RemoteUrl(f)] : f \in PageNames \cup {<<>>}}
         \cup {[shape |-> shape, value |-> OtherUrl]}

\* the listings and the markup of the pages fetch_and_save is run on: at
\* most one record, at most one reference
FetchListings == {<<>>} \cup {<<r>> : r \in {q \in PageRecords : q.title = <<"x">>}}
FetchElements ==
    {NoElem, [shape |-> "ri", value |-> <<"x">>],
     [shape |-> "img", value |-> RemoteUrl(<<"x">>)],
     [shape |-> "a", value |-> RemoteUrl(<<"x">>)]}

NoProcs == <<>>

\* a caller of download_attachment: where it stands, the call's locals and
\* return value, whether the other caller had returned when this one
\* called, and whether this one opened the file for writing
NewProc == [pc |-> "start", dl |-> NoDl, saved |-> None, seq |-> FALSE,
            wrote |-> FALSE]

\* the session is set up and fetch_and_save is at line 442
FetchAtRewriter ==
    /\ CONFLUENCE_URL = <<"h", "t", "t", "p", ":", "/", "/", "a">>
    /\ CONFLUENCE_USER = <<"u", "@", "a">>
    /\ CONFLUENCE_API_TOKEN = <<"t">>
    /\ SESSION = Session(CONFLUENCE_USER, CONFLUENCE_API_TOKEN)
    /\ call = [NoCall EXCEPT !.op = "fetch_and_save", !.pc = "rewrite",
                             !.args = Args(PageId, <<>>, <<>>, FALSE),
                             !.steps = <<"out_dir", "page", "body", "attachments_dir">>,
                             !.page = Page(<<"p">>, "markup")]
    /\ net = <<>>
    /\ docs = NoDocs

\* where the rest of the program stands while the rewriter runs
Elsewhere == FetchAtRewriter /\ procs = NoProcs

BaseDirs == {[ok |-> TRUE, parts |-> OutDir],
             [ok |-> TRUE, parts |-> OutDir \o << <<"d">> >>],
             BadPath}

(***************************************************************************)
(* The state machine of rewrite_and_download_attachments.                  *)
(***************************************************************************)
Init ==
    /\ pc = "idle"
    /\ Elsewhere
    /\ att_list = <<>>
    /\ url = NoUrl
    /\ list_reqs = <<>>
    /\ served = <<>>
    /\ att_map = EmptyMap
    /\ base_dir = [ok |-> TRUE, parts |-> OutDir]
    /\ elem = NoElem
    /\ out = NoOut
    /\ att = NoAtt
    /\ dl = NoDl
    /\ saved = None
    /\ fs = NoFiles
    /\ run_reqs = FALSE
    /\ list_status = "none"
    /\ raised = FALSE

\* rewrite_and_download_attachments is called (again, after it returned):
\* lines 247-252 and 129-131
StartRewrite ==
    /\ pc \in {"idle", "done"}
    /\ UNCHANGED <<session_vars, fetch_vars, procs>>
    /\ \E b \in BaseDirs : base_dir' = b
    /\ pc' = "list"
    /\ att_list' = <<>>
    /\ url' = Endpoint
    /\ list_reqs' = <<>>
    /\ served' = <<>>
    /\ att_map' = EmptyMap
    /\ elem' = NoElem
    /\ out' = NoOut
    /\ att' = NoAtt
    /\ dl' = NoDl
    /\ saved' = None
    /\ run_reqs' = FALSE
    /\ list_status' = "none"
    /\ raised' = FALSE
    /\ UNCHANGED fs

\* a listing request is answered with a page of results
ListResponse ==
    /\ pc = "list"
    /\ UNCHANGED <<session_vars, fetch_vars, procs>>
    /\ Len(list_reqs) < MaxPages
    /\ \E results \in SeqsUpTo(PageRecords, MaxAtts - Len(att_list)),
          next \in NextLinks \cup {NoNext} :
          /\ Len(list_reqs) = MaxPages - 1 => next = NoNext
          /\ LET r == OnListResponse(att_list, results, next)
             IN /\ att_list' = r.attachments
                /\ url' = r.url
                /\ pc' = IF r.done THEN "listed" ELSE "list"
          /\ list_reqs' = Append(list_reqs, url)
          /\ served' = Append(served, [results |-> results, next |-> next])
    /\ UNCHANGED <<att_map, base_dir, elem, out, att, dl, saved, fs, run_reqs,
                   list_status, raised>>

\* a listing request fails: _get raises, the except clause of line 272
\* takes over
ListError ==
    /\ pc = "list"
    /\ UNCHANGED <<session_vars, fetch_vars, procs>>
    /\ Len(list_reqs) < MaxPages
    /\ pc' = OnListError.pc
    /\ raised' = OnListError.raised
    /\ att_map' = EmptyMap
    /\ att_list' = <<>>
    /\ url' = NoUrl
    /\ list_reqs' = <<>>
    /\ served' = <<>>
    /\ list_status' = IF list_reqs = <<>> THEN "failed" ELSE "failed_paging"
    /\ UNCHANGED <<base_dir, elem, out, att, dl, saved, fs, run_reqs>>

\* list_attachments_for_page has returned: lines 253-270
ListReturn ==
    /\ pc = "listed"
    /\ UNCHANGED <<session_vars, fetch_vars, procs>>
    /\ att_map' = BuildMap(att_list)
    /\ pc' = "ri"
    /\ att_list' = <<>>
    /\ url' = NoUrl
    /\ list_reqs' = <<>>
    /\ served' = <<>>
    /\ list_status' = "ok"
    /\ UNCHANGED <<base_dir, elem, out, att, dl, saved, fs, run_reqs, raised>>

\* download_attachment went as far as r says: it returned, it raised, or it
\* waits for the answer to a request
Continue(r) ==
    /\ fs' = r.files
    /\ CASE r.status = "request" ->
              /\ pc' = IF r.dl.alt = 0 THEN "dl_primary" ELSE "dl_alt"
              /\ dl' = [r.dl EXCEPT !.n = @ + 1]
              /\ run_reqs' = TRUE
              /\ UNCHANGED <<saved, out, raised>>
         [] r.status = "return" ->
              /\ pc' = elem'.shape
              /\ dl' = [NoDl EXCEPT !.n = r.dl.n, !.resp = r.dl.resp]
              /\ saved' = r.saved
              /\ out' = Rewrite(elem', att', r.saved, base_dir)
              /\ UNCHANGED <<run_reqs, raised>>
         [] OTHER ->
              /\ pc' = OnDownloadRaise.pc
              /\ raised' = OnDownloadRaise.raised
              /\ dl' = r.dl
              /\ UNCHANGED <<saved, out, run_reqs>>

\* one iteration of a loop over the elements of one shape, up to the first
\* download request
Iterate(shape) ==
    /\ pc = shape
    /\ UNCHANGED <<session_vars, fetch_vars, procs>>
    /\ \E e \in Elements(shape) :
          /\ elem' = e
          /\ att' = Resolve(e, att_map)
          /\ IF att' = NoAtt
             THEN /\ out' = Rewrite(e, NoAtt, None, base_dir)
                  /\ dl' = NoDl
                  /\ saved' = None
                  /\ UNCHANGED <<pc, fs, run_reqs, raised>>
             ELSE Continue(DownloadCall(att', PageId, fs))
    /\ UNCHANGED <<att_list, url, list_reqs, served, att_map, base_dir,
                   list_status>>

RiElement == Iterate("ri")
ImgElement == Iterate("img")
AElement == Iterate("a")

\* a loop has seen its last element; the locals of its last iteration go
LoopEnd(shape, then) ==
    /\ pc = shape
    /\ UNCHANGED <<session_vars, fetch_vars, procs>>
    /\ pc' = then
    /\ elem' = NoElem
    /\ out' = NoOut
    /\ att' = NoAtt
    /\ dl' = NoDl
    /\ saved' = None
    /\ UNCHANGED <<att_list, url, list_reqs, served, att_map, base_dir, fs,
                   run_reqs, list_status, raised>>

RiEnd == LoopEnd("ri", "img")
ImgEnd == LoopEnd("img", "a")
\* line 372: return str(soup)
AEnd == LoopEnd("a", "done")

\* the primary request is answered
PrimaryResponse ==
    /\ pc = "dl_primary"
    /\ UNCHANGED <<session_vars, fetch_vars, procs>>
    /\ UNCHANGED <<att_list, url, list_reqs, served, att_map, base_dir, elem,
                   att, list_status>>
    /\ \E resp \in Responses :
          Continue(OnPrimaryResponse(att, PageId, [dl EXCEPT !.resp = resp], fs, resp))

\* the request for an alternative URL is answered
AltResponse ==
    /\ pc = "dl_alt"
    /\ UNCHANGED <<session_vars, fetch_vars, procs>>
    /\ UNCHANGED <<att_list, url, list_reqs, served, att_map, base_dir, elem,
                   att, list_status>>
    /\ \E resp \in Responses :
          Continue(OnAltResponse(att, PageId, [dl EXCEPT !.resp = resp], fs, resp))

Next ==
    \/ StartRewrite
    \/ ListResponse
    \/ ListError
    \/ ListReturn
    \/ RiElement
    \/ RiEnd
    \/ ImgElement
    \/ ImgEnd
    \/ AElement
    \/ AEnd
    \/ PrimaryResponse
    \/ AltResponse

Spec == Init /\ [][Next]_vars


(***************************************************************************)
(* The resolver alone: lines 259-270 and the variant lookup of the three   *)
(* loops, on every listing of one or two titles and every reference whose  *)
(* file name is in Names.                                                  *)
(***************************************************************************)
Listed(i, t) ==
    [id |-> IF i = 1 THEN <<"1">> ELSE <<"2">>, title |-> t, links |-> "download"]

Listings ==
    {<<Listed(1, t)>> : t \in Names}
        \cup {<<Listed(1, t), Listed(2, u)>> : t \in Names, u \in Names}

References ==
    {[shape |-> "ri", value |-> f] : f \in Names}
        \cup {[shape |-> sh, value |-> RemoteUrl(f)] : sh \in {"img", "a"}, f \in Names}

InitResolve ==
    /\ pc = "resolve"
    /\ Elsewhere
    /\ att_list \in Listings
    /\ elem \in References
    /\ url = NoUrl
    /\ list_reqs = <<>>
    /\ served = <<>>
    /\ att_map = EmptyMap
    /\ base_dir = [ok |-> TRUE, parts |-> OutDir]
    /\ out = NoOut
    /\ att = NoAtt
    /\ dl = NoDl
    /\ saved = None
    /\ fs = NoFiles
    /\ run_reqs = FALSE
    /\ list_status = "ok"
    /\ raised = FALSE

\* the map is built from the listing and the element's file name looked up
ResolveReference ==
    /\ pc = "resolve"
    /\ UNCHANGED <<session_vars, fetch_vars, procs>>
    /\ att_map' = BuildMap(att_list)
    /\ att' = Resolve(elem, att_map')
    /\ pc' = "resolved"
    /\ UNCHANGED <<att_list, url, list_reqs, served, base_dir, elem, out, dl,
                   saved, fs, run_reqs, list_status, raised>>

NextResolve == ResolveReference

SpecResolve == InitResolve /\ [][NextResolve]_vars

(***************************************************************************)
(* The program as its callers drive it: init_session, fetch_and_save and   *)
(* main, one call at a time. rewrite_and_download_attachments runs as one  *)
(* step here, on one listing request and one reference.                    *)
(***************************************************************************)
InitProgram ==
    /\ CONFLUENCE_URL = Undefined
    /\ CONFLUENCE_USER = Undefined
    /\ CONFLUENCE_API_TOKEN = Undefined
    /\ SESSION = NoSession
    /\ call = NoCall
    /\ net = <<>>
    /\ docs = NoDocs
    /\ procs = NoProcs
    /\ fs = NoFiles
    /\ pc = "program"
    /\ att_list = <<>>
    /\ url = NoUrl
    /\ list_reqs = <<>>
    /\ served = <<>>
    /\ att_map = EmptyMap
    /\ base_dir = [ok |-> TRUE, parts |-> OutDir]
    /\ elem = NoElem
    /\ out = NoOut
    /\ att = NoAtt
    /\ dl = NoDl
    /\ saved = None
    /\ run_reqs = FALSE
    /\ list_status = "none"
    /\ raised = FALSE

\* no call is running and the process has not exited
Callable == call.pc = "idle" /\ call.exit = NoExit

\* init_session(confluence_url, user, api_token) up to its request:
\* lines 59-86
InitSessionCall ==
    /\ Callable
    /\ \E args \in InitSessionArgs :
       LET u == args[1]
           n == args[2]
           t == args[3]
       IN /\ CONFLUENCE_URL' = u
          /\ CONFLUENCE_USER' = n
          /\ CONFLUENCE_API_TOKEN' = t
          /\ LET c == [NoCall EXCEPT !.op = "init_session", !.steps = <<"globals">>]
             IN IF Validate(u, n, t) # "ok"
                THEN /\ call' = Raise(c, "ValueError")
                     /\ net' = <<>>
                     /\ UNCHANGED SESSION
                ELSE /\ SESSION' = Session(n, t)
                     /\ net' = <<Request("user/current", u, SESSION')>>
                     /\ call' = [c EXCEPT !.pc = "probe",
                                          !.steps = <<"globals", "session">>]
    /\ UNCHANGED <<rewriter_vars, fs, docs, procs>>

\* line 86: the answer to GET /user/current
ProbeResponse ==
    /\ call.pc = "probe"
    /\ \E resp \in GetResponses :
          call' = IF resp = "ok"
                  THEN [call EXCEPT !.pc = "idle", !.steps = Append(@, "probe")]
                  ELSE Raise(call, GetError(resp))
    /\ UNCHANGED <<session_vars, rewriter_vars, fs, net, docs, procs>>

\* fetch_and_save from line 411 up to its page request: lines 411-426
EnterFetchAndSave(c) ==
    IF CredentialsMissing(SESSION)
    THEN /\ call' = Raise(c, "Credentials not initialized")
         /\ net' = <<>>
    ELSE LET c1 == [c EXCEPT !.steps = Append(@, "out_dir")]
         IN IF c.args.page_id # <<>>
            THEN /\ call' = [c1 EXCEPT !.pc = "page_by_id"]
                 /\ net' = <<Request("content/id", CONFLUENCE_URL, SESSION)>>
            ELSE IF c.args.title_arg = <<>> \/ c.args.space = <<>>
            THEN /\ call' = Raise(c1, "Both title and space are required")
                 /\ net' = <<>>
            ELSE /\ call' = [c1 EXCEPT !.pc = "page_by_title"]
                 /\ net' = <<Request("content?title", CONFLUENCE_URL, SESSION)>>

FetchAndSaveCall ==
    /\ Callable
    /\ \E a \in ArgsGiven :
          EnterFetchAndSave([NoCall EXCEPT !.op = "fetch_and_save", !.args = a])
    /\ UNCHANGED <<session_vars, rewriter_vars, fs, docs, procs>>

\* main(): lines 469-506
MainCall ==
    /\ Callable
    /\ \E a \in ArgsGiven :
          LET c == [NoCall EXCEPT !.op = "main", !.args = a, !.steps = <<"parse">>]
          IN IF \/ a.page_id = <<>> /\ a.title_arg = <<>>
                \/ a.title_arg # <<>> /\ a.space = <<>>
             THEN /\ call' = [c EXCEPT !.args = NoArgs, !.printed = <<"usage:">>,
                                       !.exit = EXIT_PARSER_ERROR]
                  /\ net' = <<>>
             ELSE IF SESSION = NoSession
             THEN /\ call' = [c EXCEPT !.args = NoArgs, !.printed = <<"ERROR:">>,
                                       !.exit = EXIT_NO_CREDENTIALS]
                  /\ net' = <<>>
             ELSE EnterFetchAndSave(c)
    /\ UNCHANGED <<session_vars, rewriter_vars, fs, docs, procs>>

\* the answer to the page request, and lines 420-439
PageResponse ==
    /\ call.pc \in {"page_by_id", "page_by_title"}
    /\ \E resp \in GetResponses :
          IF resp # "ok" THEN call' = Raise(call, GetError(resp))
          ELSE \/ /\ call.pc = "page_by_title"
                  /\ call' = Raise(call, "Page not found")
               \/ \E page \in Pages :
                     LET c1 == [call EXCEPT !.page = page, !.steps = Append(@, "page")]
                     IN call' = IF BodyMissing(page)
                                THEN Raise(c1, "No storage value found on page.")
                                ELSE [c1 EXCEPT
                                        !.pc = "rewrite",
                                        !.steps = @ \o <<"body", "attachments_dir">>]
    /\ UNCHANGED <<session_vars, rewriter_vars, fs, net, docs, procs>>

\* lines 442-444: rewrite_and_download_attachments from call to return
RunRewriter ==
    /\ call.pc = "rewrite"
    /\ \E failed \in BOOLEAN, listing \in FetchListings, e \in FetchElements :
          LET m == IF failed THEN EmptyMap ELSE BuildMap(listing)
              a == Resolve(e, m)
              ends == IF a = NoAtt
                      THEN {[status |-> "return", saved |-> None, files |-> fs,
                             dl |-> NoDl]}
                      ELSE DownloadOutcomes(DownloadCall(a, call.page.id, fs),
                                            a, call.page.id)
          IN /\ failed => listing = <<>>
             /\ \E r \in ends :
                   /\ fs' = r.files
                   /\ net' = net \o <<Request("attachments", CONFLUENCE_URL, SESSION)>>
                                 \o [i \in 1..r.dl.n |->
                                        Request("download", CONFLUENCE_URL, SESSION)]
                   /\ call' = IF r.status # "return"
                              THEN Raise(call, "download_attachment raised")
                              ELSE [call EXCEPT
                                      !.pc = "render",
                                      !.steps = Append(@, "rewrite"),
                                      !.downloaded = r.saved.ok /\ r.dl.n > 0]
    /\ UNCHANGED <<session_vars, rewriter_vars, docs, procs>>

\* the renderer returns or raises, and lines 451-466
RendererReturns ==
    /\ call.pc = "render"
    /\ \E rendered \in BOOLEAN :
          IF ~rendered
          THEN /\ call' = Raise(call, "renderer failed")
               /\ UNCHANGED docs
          ELSE LET md == Markdown(call.args.use_pandoc)
                   md_path == SafeTitle(call.page.title) \o <<".", "m", "d">>
               IN /\ docs' = Put(docs, md_path, Document(call.page.title, md))
                  /\ call' = Return([call EXCEPT !.steps = @ \o <<"render", "write">>],
                                    Result(md_path,
                                           IF DOMAIN fs # {} THEN ATTACHMENTS ELSE <<>>,
                                           md))
    /\ UNCHANGED <<session_vars, rewriter_vars, fs, net, procs>>

NextProgram ==
    \/ InitSessionCall
    \/ ProbeResponse
    \/ FetchAndSaveCall
    \/ MainCall
    \/ PageResponse
    \/ RunRewriter
    \/ RendererReturns

SpecProgram == InitProgram /\ [][NextProgram]_vars

(***************************************************************************)
(* Two runs at once on one output directory: each calls                    *)
(* download_attachment once, for the same record; a step of a call runs    *)
(* from one request to the next (lines 199-207, 208-233, 233-244).         *)
(***************************************************************************)
InitRace ==
    /\ FetchAtRewriter
    /\ procs = <<NewProc, NewProc>>
    /\ att \in PageRecords
    /\ fs = NoFiles
    /\ pc = "race"
    /\ att_list = <<>>
    /\ url = NoUrl
    /\ list_reqs = <<>>
    /\ served = <<>>
    /\ att_map = EmptyMap
    /\ base_dir = [ok |-> TRUE, parts |-> OutDir]
    /\ elem = NoElem
    /\ out = NoOut
    /\ dl = NoDl
    /\ saved = None
    /\ run_reqs = FALSE
    /\ list_status = "none"
    /\ raised = FALSE

Other(p) == 3 - p

\* the call of caller p, whose record is me, went as far as r says
ProcContinue(p, me, r, opened) ==
    /\ fs' = r.files
    /\ procs' = [procs EXCEPT ![p] =
          IF r.status = "request"
          THEN [me EXCEPT !.pc = IF r.dl.alt = 0 THEN "dl_primary" ELSE "dl_alt",
                         !.dl = [r.dl EXCEPT !.n = @ + 1],
                         !.wrote = @ \/ opened]
          ELSE [me EXCEPT !.pc = "done", !.dl = r.dl, !.saved = r.saved,
                          !.wrote = @ \/ opened]]

\* caller p calls download_attachment: lines 152-207
ProcCall(p) ==
    /\ procs[p].pc = "start"
    /\ ProcContinue(p, [procs[p] EXCEPT !.seq = (procs[Other(p)].pc = "done")],
                    DownloadCall(att, PageId, fs), FALSE)
    /\ UNCHANGED <<session_vars, fetch_vars, pc, att_list, url, list_reqs, served,
                   att_map, base_dir, elem, out, att, dl, saved, run_reqs,
                   list_status, raised>>

\* a request of caller p is answered: lines 208-244
ProcResponse(p) ==
    /\ procs[p].pc \in {"dl_primary", "dl_alt"}
    /\ \E resp \in Responses :
          LET d == [procs[p].dl EXCEPT !.resp = resp]
          IN ProcContinue(p, procs[p],
                 IF procs[p].pc = "dl_primary"
                 THEN OnPrimaryResponse(att, PageId, d, fs, resp)
                 ELSE OnAltResponse(att, PageId, d, fs, resp),
                 resp \in {"ok", "stream_error"})
    /\ UNCHANGED <<session_vars, fetch_vars, pc, att_list, url, list_reqs, served,
                   att_map, base_dir, elem, out, att, dl, saved, run_reqs,
                   list_status, raised>>

NextRace == \E p \in 1..2 : ProcCall(p) \/ ProcResponse(p)

SpecRace == InitRace /\ [][NextRace]_vars

(***************************************************************************)
(* Properties.                                                             *)
(***************************************************************************)
\* an iteration of one of the three loops has run to its end on elem
Processed == pc \in Shapes /\ elem # NoElem

\* one of the three recognized shapes of attachment reference
Recognized(e) ==
    \/ e.shape = "ri" /\ e.value # <<>>
    \/ e.shape \in {"img", "a"} /\ Contains(e.value, SEGMENT)

\* no filename variant of the reference is a key of the map
Unmatched(e, m) ==
    \A i \in 1..Len(ClaimedVariants(RefFilename(e))) :
        ClaimedVariants(RefFilename(e))[i] \notin DOMAIN m

IsPlaceholderFor(o, e) ==
    /\ o.kind = "text"
    /\ Contains(o.value, RefFilename(e))
    /\ ~Contains(o.value, SEGMENT)


\* C1 (as amended): a structured inline reference with a non-empty filename
\* attribute, none of whose filename variants is a key of the Attachment
\* Map, is replaced by the placeholder text holding the filename; an img or
\* anchor whose src or href holds /download/attachments/ and matches nothing
\* is left as it was, remote URL included.
C1_UnmatchedStructuredIsPlaceholder ==
    (Processed /\ Recognized(elem) /\ Unmatched(elem, att_map)) =>
        IF elem.shape = "ri"
        THEN out = Text(Placeholder(elem.value)) /\ IsPlaceholderFor(out, elem)
        ELSE out = Unchanged(elem)

\* C1 as stated: an unmatched reference of any of the three shapes is
\* replaced by a placeholder and its remote URL is gone from the output.
C1_Original ==
    (Processed /\ Recognized(elem) /\ Unmatched(elem, att_map)) =>
        IsPlaceholderFor(out, elem)

C1_Witness ==
    /\ Processed
    /\ elem.shape = "ri"
    /\ elem.value # <<>>
    /\ DOMAIN att_map # {}
    /\ Unmatched(elem, att_map)
    /\ out.kind = "text"

\* the variants in the order the three loops list them
CodeOrder(f) ==
    << f,
       Unquote(f),
       Replace(f, PCT20, SP),
       Replace(f, US, SP),
       Replace(f, SP, US),
       Replace(f, SP, PCT20) >>

Hits(vs, m) == {i \in 1..Len(vs) : vs[i] \in DOMAIN m}

\* att is the record under the first variant of vs that is a key, and no
\* record when none is
ResolvedInOrder(vs) ==
    IF Hits(vs, att_map) = {} THEN att = NoAtt
    ELSE att # NoAtt /\ att = att_map[vs[Min(Hits(vs, att_map))]]

\* C2 (as amended): for all three shapes the variants are looked up in the
\* order raw, URL-decoded, %20 to space, underscore to space, space to
\* underscore, space to %20; the reference resolves to the record under the
\* first variant that is a key, and is resolved whenever some variant is a
\* key.
C2_FirstVariantInCodeOrder ==
    pc = "resolved" => ResolvedInOrder(CodeOrder(RefFilename(elem)))

\* C2 as stated: the order is raw, decoded, space to underscore, underscore
\* to space, space to %20, %20 to space.
C2_Original ==
    pc = "resolved" => ResolvedInOrder(ClaimedVariants(RefFilename(elem)))

C2_Witness ==
    /\ pc = "resolved"
    /\ elem.shape = "a"
    /\ att # NoAtt
    /\ RefFilename(elem) \notin DOMAIN att_map
    /\ \E i, j \in Hits(CodeOrder(RefFilename(elem)), att_map) :
          att_map[CodeOrder(RefFilename(elem))[i]]
              # att_map[CodeOrder(RefFilename(elem))[j]]

\* C3 (as amended): when the reference matched a record and
\* download_attachment returned None, a structured inline reference is
\* replaced by the placeholder holding its filename; an img or anchor is
\* left as it was, still pointing at the remote URL.
C3_FailedStructuredIsPlaceholder ==
    (Processed /\ att # NoAtt /\ ~saved.ok) =>
        IF elem.shape = "ri"
        THEN out = Text(Placeholder(elem.value)) /\ IsPlaceholderFor(out, elem)
        ELSE out = Unchanged(elem)

\* C3 as stated: on a failed download the element of any shape is replaced
\* by a placeholder.
C3_Original ==
    (Processed /\ att # NoAtt /\ ~saved.ok) => IsPlaceholderFor(out, elem)

C3_Witness ==
    /\ Processed
    /\ elem.shape = "ri"
    /\ att # NoAtt
    /\ ~saved.ok
    /\ dl.n > 0
    /\ out.kind = "text"


\* the components of a slash-separated path
RECURSIVE SplitPath(_)
SplitPath(s) ==
    IF \E i \in 1..Len(s) : s[i] = "/"
    THEN LET k == Min({i \in 1..Len(s) : s[i] = "/"})
         IN <<SubSeq(s, 1, k - 1)>> \o SplitPath(Drop(s, k))
    ELSE <<s>>

\* the path a relative path names, taken from directory `from`
RECURSIVE Follow(_, _)
Follow(from, rel) ==
    IF rel = <<>> THEN from
    ELSE IF Head(rel) = DOTDOT
         THEN Follow(SubSeq(from, 1, Len(from) - 1), Tail(rel))
    ELSE Follow(Append(from, Head(rel)), Tail(rel))


\* the reference written for a saved file: no root marker, the file's name
\* last, a file of the attachments directory, and the path that leads from
\* base_dir to the file (the bare file name when relpath raises)
LocalReferenceOk ==
    (Processed /\ att # NoAtt /\ saved.ok) =>
        /\ out = Tag(IF elem.shape = "ri" THEN "img" ELSE elem.shape, out.value)
        /\ out.value # <<>>
        /\ out.value[1] # "/"
        /\ EndsWith(out.value, saved.name)
        /\ saved.name \in DOMAIN fs
        /\ IF base_dir.ok
           THEN Follow(base_dir.parts, SplitPath(out.value))
                    = AttachmentsDir \o <<saved.name>>
           ELSE out.value = saved.name

\* C4: the reference of a matched element whose download succeeded is the
\* saved file's path relative to base_dir (not to the attachments
\* directory); it starts with no root marker, ends in the file's name, and
\* the file is there then and stays there until the rewriter returns; when
\* relativization raises the reference is the file's base name.
C4_LocalReference ==
    /\ []LocalReferenceOk
    /\ [][\A f \in DOMAIN fs : f \in DOMAIN fs']_vars

C4_Witness ==
    /\ Processed
    /\ att # NoAtt
    /\ saved.ok
    /\ base_dir.ok
    /\ base_dir.parts # OutDir
    /\ IsPrefix(DOTDOT \o <<"/">> \o ATTACHMENTS, out.value)


\* this step calls download_attachment for a record whose file is there
CallWithFilePresent ==
    /\ pc \in Shapes
    /\ att' # NoAtt
    /\ DeriveFilename(att', DownloadLink(att', PageId)) \in DOMAIN fs

\* the call returned the existing path at once: no request, no write
ReturnsExistingFile ==
    /\ pc' = pc
    /\ fs' = fs
    /\ run_reqs' = run_reqs
    /\ dl'.n = 0
    /\ saved' = Some(DeriveFilename(att', DownloadLink(att', PageId)))
    /\ out'.kind = "tag"
    /\ out'.value = LocalRef(saved', base_dir)

\* the call returned None at once: no request, no write
ReturnsNoneAtOnce ==
    /\ pc' = pc
    /\ fs' = fs
    /\ run_reqs' = run_reqs
    /\ dl'.n = 0
    /\ saved' = None

\* C5 (as amended): a call of download_attachment for a record that carries
\* a download locator and whose sanitized file name is already in the
\* target directory issues no request, returns the existing file's path
\* and leaves the directory as it was, so a later run resolves the
\* reference to the file already there without a download request; for a
\* record without a locator the call returns None, file or no file.
C5_ExistingFileIsReused ==
    [][CallWithFilePresent =>
          IF DownloadLink(att', PageId) # NoLink THEN ReturnsExistingFile
          ELSE ReturnsNoneAtOnce]_vars

\* C5 as stated: whenever the file exists the call returns its path.
C5_Original == [][CallWithFilePresent => ReturnsExistingFile]_vars

C5_Witness ==
    /\ Processed
    /\ att # NoAtt
    /\ saved.ok
    /\ saved.name \in DOMAIN fs
    /\ ~run_reqs
    /\ out.value = LocalRef(saved, base_dir)

NoHtmlOnDisk == \A f \in DOMAIN fs : fs[f].ctype # "html"

AwaitingResponse == pc \in {"dl_primary", "dl_alt"}

\* C6: no file of the attachments directory ever holds the body of a
\* response declared text/html, and the step that receives such a response,
\* on the primary or on an alternative URL, writes nothing.
C6_HtmlNeverWritten ==
    /\ []NoHtmlOnDisk
    /\ [][(AwaitingResponse /\ dl'.resp = "html") => fs' = fs]_vars

C6_Witness ==
    /\ pc = "dl_alt"
    /\ dl.alt >= 2
    /\ dl.resp = "html"
    /\ dl.filename \notin DOMAIN fs

\* C7: whatever the answers to its requests, download_attachment raises
\* nothing: it ends after at most one request per URL, with None or with
\* the path of a file that is there, and the rewriter goes on.
C7_DownloadNeverRaises ==
    /\ ~raised
    /\ pc # "raised"
    /\ pc = "dl_primary" => dl.alt = 0 /\ dl.n = 1
    /\ pc = "dl_alt" =>
          /\ dl.alt \in 1..Len(AltUrls(att, PageId, dl.filename))
          /\ dl.n = dl.alt + 1
    /\ (Processed /\ att # NoAtt) =>
          /\ dl.n <= 1 + Len(AltUrls(att, PageId, dl.filename))
          /\ saved = None \/ (saved.ok /\ saved.name \in DOMAIN fs)

C7_Witness ==
    /\ Processed
    /\ att # NoAtt
    /\ saved = None
    /\ dl.n = 4
    /\ dl.resp = "stream_error"

ListingFailed == list_status \in {"failed", "failed_paging"}

\* C8 (as amended): when the listing fails, on its first request or on a
\* later page, the rewriter raises nothing, goes on with an empty map
\* (pages already fetched are dropped) and issues no download request; a
\* structured inline reference becomes a placeholder, an img or anchor is
\* left as it was.
C8_ListingFailureDegrades ==
    ListingFailed =>
        /\ ~raised
        /\ pc \in Shapes \cup {"done"}
        /\ att_map = EmptyMap
        /\ ~run_reqs
        /\ Processed =>
              /\ att = NoAtt
              /\ IF elem.shape = "ri" /\ elem.value # <<>>
                 THEN out = Text(Placeholder(elem.value))
                 ELSE out = Unchanged(elem)

\* C8 as stated: every reference of the three shapes becomes a placeholder.
C8_Original ==
    (ListingFailed /\ Processed /\ Recognized(elem)) => IsPlaceholderFor(out, elem)

C8_Witness ==
    /\ list_status = "failed_paging"
    /\ Processed
    /\ elem.shape = "ri"
    /\ out = Text(Placeholder(elem.value))
    /\ fs # NoFiles

RECURSIVE ConcatResults(_)
ConcatResults(pages) ==
    IF pages = <<>> THEN <<>>
    ELSE Head(pages).results \o ConcatResults(Tail(pages))

\* C9: the lister sends its first request to the attachment endpoint and
\* each later one to the next link of the response before; it stops at the
\* first response without a next link, after as many requests as responses,
\* and returns the pages' results joined in the order of the responses.
C9_PaginationConcatenates ==
    pc \in {"list", "listed"} =>
        /\ Len(list_reqs) = Len(served)
        /\ att_list = ConcatResults(served)
        /\ \A k \in 1..Len(list_reqs) :
              list_reqs[k] = IF k = 1 THEN Endpoint
                             ELSE UrlJoin(CONFLUENCE_HOST, served[k - 1].next)
        /\ \A k \in 1..(Len(served) - 1) : served[k].next # NoNext
        /\ pc = "listed" => served # <<>> /\ served[Len(served)].next = NoNext
        /\ pc = "list" =>
              /\ served # <<>> => served[Len(served)].next # NoNext
              /\ url = IF served = <<>> THEN Endpoint
                       ELSE UrlJoin(CONFLUENCE_HOST, served[Len(served)].next)

C9_Witness ==
    /\ pc = "listed"
    /\ Len(served) = 2
    /\ Len(list_reqs) = 2
    /\ served[1].next.host = ""
    /\ served[1].results # <<>>
    /\ served[2].results # <<>>
    /\ served[1].results # served[2].results

\* C10: with an empty listing the rewriter issues no download request and
\* every img src and anchor href that holds /download/attachments/ is in the
\* output as it was in the input.
C10_EmptyListingLeavesLinks ==
    (list_status = "ok" /\ att_map = EmptyMap) =>
        /\ ~run_reqs
        /\ ~AwaitingResponse
        /\ (Processed /\ elem.shape \in {"img", "a"}) =>
              /\ out = Unchanged(elem)
              /\ Contains(out.value, elem.value)

C10_Witness ==
    /\ list_status = "ok"
    /\ att_map = EmptyMap
    /\ Processed
    /\ elem.shape = "a"
    /\ Contains(elem.value, SEGMENT)
    /\ RefFilename(elem) # <<>>
    /\ out = Unchanged(elem)


\* a record with no download link field and no id to build one from
NoLocator(a) == a.links = "none" /\ a.id = <<>>

\* C14: download_attachment called with a record that carries no download
\* locator returns None, issues no request and writes no file.
C14_NoLocatorReturnsNone ==
    [][(pc \in Shapes /\ att' # NoAtt /\ NoLocator(att')) => ReturnsNoneAtOnce]_vars

C14_Witness ==
    /\ Processed
    /\ att # NoAtt
    /\ NoLocator(att)
    /\ saved = None
    /\ dl.n = 0
    /\ DeriveFilename(att, NoLink) \notin DOMAIN fs

\* C17 as stated: a reference whose raw file name is the title of a listed
\* record resolves to a record of that title, whatever else is listed and
\* in whatever order.
C17_RawTitleResolvesToOwnRecord ==
    (pc = "resolved" /\ \E i \in 1..Len(att_list) : att_list[i].title = RefFilename(elem))
        => att.title = RefFilename(elem)

\* a record of this title is in the listing the map was built from
InListing(title) == \E k \in DOMAIN att_map : att_map[k].title = title

\* C20 as stated: the file a record's download call returns holds that
\* record's bytes, never those saved for a record of another title.
C20_SavedFileHoldsOwnBytes ==
    (Processed /\ att # NoAtt /\ saved.ok) =>
        /\ saved.name \in DOMAIN fs
        /\ InListing(fs[saved.name].of) => fs[saved.name].of = att.title


\* the last call was of fetch_and_save, directly or from main, and has ended
FetchEnded == call.op \in {"fetch_and_save", "main"} /\ call.pc = "idle"

\* C11: fetch_and_save called while SESSION is None raises 'Credentials not
\* initialized' whatever its arguments, before it takes any step: it sends
\* no request, creates no directory and writes no document.
C11_FetchWithoutSessionFails ==
    (call.op = "fetch_and_save" /\ SESSION = NoSession) =>
        /\ call.pc = "idle"
        /\ call.error = "Credentials not initialized"
        /\ call.steps = <<>>
        /\ call.result = NoResult
        /\ net = <<>>
        /\ docs = NoDocs
        /\ fs = NoFiles

C11_Witness ==
    /\ call.op = "fetch_and_save"
    /\ CONFLUENCE_URL = Undefined
    /\ SESSION = NoSession
    /\ call.error = "Credentials not initialized"
    /\ net = <<>>

PLACEHOLDER_URL == <<"h", "t", "t", "p", "s", ":", "/", "/">> \o PLACEHOLDER_DOMAIN

\* the arguments break one of the stated constraints
ConstraintViolated(confluence_url, user, api_token) ==
    \/ confluence_url = <<>> \/ user = <<>> \/ api_token = <<>>
    \/ ~IsPrefix(HTTP, confluence_url)
    \/ ~Contains(user, <<"@">>)
    \/ confluence_url = PLACEHOLDER_URL
    \/ user = PLACEHOLDER_USER
    \/ api_token = PLACEHOLDER_TOKEN

\* C12: init_session called with arguments that break a constraint raises
\* ValueError without sending a request; the one request it sends, the
\* identity check, goes out only when every constraint holds.
C12_InvalidInitFailsEarly ==
    call.op = "init_session" =>
        LET bad == ConstraintViolated(CONFLUENCE_URL, CONFLUENCE_USER,
                                      CONFLUENCE_API_TOKEN)
        IN /\ bad => (call.pc = "idle" /\ call.error = "ValueError" /\ net = <<>>)
           /\ net # <<>> =>
                 /\ ~bad
                 /\ net = <<Request("user/current", CONFLUENCE_URL, SESSION)>>
           /\ ~bad => net # <<>>

C12_Witness ==
    /\ call.op = "init_session"
    /\ CONFLUENCE_URL \in GoodUrls
    /\ CONFLUENCE_API_TOKEN \in GoodApiTokens
    /\ CONFLUENCE_USER # <<>>
    /\ ~Contains(CONFLUENCE_USER, <<"@">>)
    /\ call.error = "ValueError"
    /\ net = <<>>

\* C13 as stated: a fetch_and_save that returns reports the attachments
\* directory exactly when this call downloaded an attachment.
C13_ReportsDirIffDownloaded ==
    (FetchEnded /\ call.result # NoResult) =>
        (call.result.attachments_dir # <<>> <=> call.downloaded)

\* C15 as stated: main ends a caught failure of fetch_and_save with a
\* message and a non-zero status other than the status of rejected
\* arguments.
C15_FailureStatusIsDistinct ==
    (call.op = "main" /\ call.pc = "idle" /\ call.error # "") =>
        /\ call.printed # <<>>
        /\ call.exit \notin {NoExit, 0}
        /\ call.exit # EXIT_PARSER_ERROR

\* C18 as stated: once a session is set up, an init_session call that fails
\* on a constraint leaves CONFLUENCE_URL, CONFLUENCE_USER,
\* CONFLUENCE_API_TOKEN and SESSION as they were before the call.
C18_FailedInitKeepsSession ==
    [][(/\ Callable
        /\ SESSION # NoSession
        /\ call'.op = "init_session"
        /\ call'.error = "ValueError") => UNCHANGED session_vars]_vars

\* the steps of a fetch_and_save that runs to its end, in their order
FetchSteps == <<"out_dir", "page", "body", "attachments_dir", "rewrite",
                "render", "write">>

StepsOf(c) == IF c.op = "main" THEN Tail(c.steps) ELSE c.steps

PageRequests == {i \in 1..Len(net) : net[i].what \in {"content/id", "content?title"}}

FetchInOrder ==
    call.op \in {"fetch_and_save", "main"} =>
        /\ IsPrefix(StepsOf(call), FetchSteps)
        /\ Cardinality(PageRequests) <= 1
        /\ call.pc \in {"rewrite", "render"} => call.page.body = "markup"
        /\ call.error # "" =>
              /\ call.pc = "idle"
              /\ call.result = NoResult
              /\ StepsOf(call) # FetchSteps
        /\ call.error \in {"Page not found", "HTTPError", "ConnectionError"} =>
              /\ StepsOf(call) = <<"out_dir">>
              /\ Len(net) = 1
        /\ call.error = "No storage value found on page." =>
              /\ StepsOf(call) = <<"out_dir", "page">>
              /\ Len(net) = 1
        /\ call.error = "renderer failed" =>
              StepsOf(call) = SubSeq(FetchSteps, 1, 5)
        /\ call.result # NoResult =>
              /\ StepsOf(call) = FetchSteps
              /\ call.result.md_path \in DOMAIN docs

\* C19: fetch_and_save takes its steps in one order, sends one page
\* request, and writes the document once, as its last step, after the
\* page, a non-empty body, the rewriter and the renderer; when the page is
\* not found, the request fails, the body is missing or the renderer
\* fails, the error leaves the call and no document is written; a missing
\* body ends the call before the attachments directory is made and before
\* any listing or download request.
C19_DocumentWrittenLast ==
    /\ []FetchInOrder
    /\ [][docs' # docs =>
             /\ call.pc = "render"
             /\ call'.pc = "idle"
             /\ call'.error = ""
             /\ StepsOf(call') = FetchSteps]_vars
    /\ [][fs' # fs => (call.pc = "rewrite" /\ call.page.body = "markup")]_vars

C19_Witness ==
    /\ call.op = "fetch_and_save"
    /\ call.error = "No storage value found on page."
    /\ Cardinality(DOMAIN docs) = 1
    /\ Len(net) = 1


BothWrote == procs[1].wrote /\ procs[2].wrote

\* C16: when one run calls download_attachment after the other has
\* returned, the two never both write the file, and if the first wrote it
\* the second sends no request and writes nothing; run at the same time,
\* both can pass the exists test, both send a request and both write the
\* same file (the state of the witness).
C16_SequentialRunsWriteOnce ==
    pc = "race" =>
        \A p \in 1..2 :
            procs[p].seq =>
                /\ ~BothWrote
                /\ procs[Other(p)].wrote =>
                      /\ procs[p].pc = "done"
                      /\ procs[p].dl.n = 0
                      /\ ~procs[p].wrote
                      /\ procs[p].saved.ok
                      /\ procs[p].saved.name \in DOMAIN fs

C16_Witness ==
    /\ pc = "race"
    /\ BothWrote
    /\ \A p \in 1..2 :
          /\ ~procs[p].seq
          /\ procs[p].pc = "done"
          /\ procs[p].dl.n = 1
          /\ procs[p].saved.ok
    /\ procs[1].saved = procs[2].saved


\* the file a call of download_attachment for record a works on
TargetOf(a) == DeriveFilename(a, DownloadLink(a, PageId))

\* C21 as stated: a call of download_attachment that returns None leaves no
\* incomplete file at its target path, so a call that takes the
\* already-exists branch returns a file that was written whole.
C21_NoPartialFileAfterFailure ==
    (Processed /\ att # NoAtt) =>
        /\ (saved = None /\ TargetOf(att) \in DOMAIN fs) => fs[TargetOf(att)].complete
        /\ (saved.ok /\ dl.n = 0) => fs[saved.name].complete

=============================================================================
